---- MODULE Spec2Model ----
(***************************************************************************)
(* Model of src/main.py: VOICEVOX text-to-speech driver that concatenates  *)
(* the synthesized WAV clips with a fixed silence between them.            *)
(*                                                                         *)
(* A WAV buffer is a record of the header fields the wave reader returns   *)
(* and its raw frame data (a sequence of bytes).  A duration in seconds is *)
(* a rational [num, den] so that the truncation of framerate * seconds is  *)
(* visible.  The output Wave_write object is the record out_w.             *)
(***************************************************************************)
EXTENDS Integers, Sequences, FiniteSets, TLC

VARIABLES pc, caller, texts, requests, wav_list, silence_seconds, ref,
          out_w, silence_frames, i, error, ops, call, ret

vars == <<pc, caller, texts, requests, wav_list, silence_seconds, ref,
          out_w, silence_frames, i, error, ops, call, ret>>

(* ------------------------------ bounds -------------------------------- *)
MaxSegs == 3
MaxFrames == 1
MaxSecNum == 3
MaxTexts == 2
MaxArg == 3

(* ------------------------- program constants -------------------------- *)
SPEAKER_ID == 8
SILENCE_SECONDS == 30

(* -------------------------- input universes --------------------------- *)
Channels == {1, 2}
SampWidths == {1, 2}
FrameRates == {1, 2}
SampleBytes == {7}
SecDen == 2
\* a segment holds MaxFrames - 1 or MaxFrames frames
FrameCounts == {MaxFrames - 1, MaxFrames}
\* the sample widths the wave module can write
WaveWidths == 1..4
TextSet == {"t1", "t2"}

None == [none |-> TRUE]

Rational(n, d) == [num |-> n, den |-> d]

\* sequences over S of length 0..n
SeqUpTo(S, n) == UNION {[1..m -> S] : m \in 0..n}

\* bytes * n of Python: the sequence repeated n times, empty when n <= 0
Repeat(s, n) ==
  IF n <= 0 \/ Len(s) = 0 THEN <<>>
  ELSE [j \in 1..(Len(s) * n) |-> s[((j - 1) % Len(s)) + 1]]

\* a readable PCM WAV buffer: the wave reader reports comptype "NONE"
Wav(c, w, r, nf, b) ==
  [nchannels |-> c, sampwidth |-> w, framerate |-> r,
   comptype |-> "NONE", compname |-> "not compressed",
   frames |-> Repeat(<<b>>, c * w * nf)]

WavSet ==
  {Wav(c, w, r, nf, b) : c \in Channels, w \in SampWidths, r \in FrameRates,
                         nf \in FrameCounts, b \in SampleBytes}

Durations == {Rational(n, SecDen) : n \in 0..MaxSecNum}

(* ------------------------------ errors -------------------------------- *)
\* "fields" is the set of header fields the error message names
NoError == [type |-> "none", msg |-> "", fields |-> {}]
IndexError == [type |-> "IndexError", msg |-> "list index out of range", fields |-> {}]
UnsupportedError == [type |-> "ValueError", msg |-> "16bit PCM (sampwidth=2) only", fields |-> {}]
MismatchError == [type |-> "ValueError", msg |-> "wav formats do not match", fields |-> {}]
HTTPError == [type |-> "HTTPError", msg |-> "raise_for_status", fields |-> {}]
SheetError == [type |-> "APIError", msg |-> "spreadsheet read failed", fields |-> {}]

(* ----------------------- create_silence_frames ------------------------ *)
\* int(x) of Python for x = a / d, d > 0: truncation toward zero
\* variant: rounds up instead of truncating
IntTruncUp(a, d) == IF a >= 0 THEN (a + d - 1) \div d ELSE -((-a) \div d)
IntTrunc(a, d) == IF a >= 0 THEN a \div d ELSE -((-a) \div d)

\* struct.pack("<h", v): 16-bit signed little-endian
Pack_h(v) == LET u == v % 65536 IN <<u % 256, u \div 256>>

\* variant: no sample width test
create_silence_frames_nocheck(n_channels, sampwidth, framerate, seconds) ==
  LET n_frames == IntTrunc(framerate * seconds.num, seconds.den)
  IN [raised |-> FALSE, error |-> NoError,
      bytes |-> Repeat(Repeat(Pack_h(0), n_channels), n_frames)]
\* variant: the sample is not replicated across the channels
create_silence_frames_mono(n_channels, sampwidth, framerate, seconds) ==
  LET n_frames == IntTrunc(framerate * seconds.num, seconds.den)
  IN IF sampwidth # 2
     THEN [raised |-> TRUE, error |-> UnsupportedError, bytes |-> <<>>]
     ELSE [raised |-> FALSE, error |-> NoError,
           bytes |-> Repeat(Pack_h(0), n_frames)]
create_silence_frames(n_channels, sampwidth, framerate, seconds) ==
  LET n_frames == IntTrunc(framerate * seconds.num, seconds.den)
  IN IF sampwidth # 2
     THEN [raised |-> TRUE, error |-> UnsupportedError, bytes |-> <<>>]
     ELSE [raised |-> FALSE, error |-> NoError,
           bytes |-> Repeat(Repeat(Pack_h(0), n_channels), n_frames)]

(* --------------------------- wave objects ----------------------------- *)
\* the five getters read from the first buffer
Params(w) ==
  [n_channels |-> w.nchannels, sampwidth |-> w.sampwidth,
   framerate |-> w.framerate, comptype |-> w.comptype, compname |-> w.compname]

\* the condition of the format check: TRUE when the ValueError is raised
FormatDiffers(w, r) ==
  \/ w.nchannels # r.n_channels
  \/ w.sampwidth # r.sampwidth
  \/ w.framerate # r.framerate

\* w.readframes(w.getnframes())
ReadFrames(w) == w.frames

\* the guard of the silence insertion after segment idx of n (0-based)
\* variants: i != 0, and i != len(wav_list)
NotLastButFirst(idx, n) == idx # 0
NotLastOffByOne(idx, n) == idx # n
NotLast(idx, n) == idx # n - 1

Unopened == [state |-> "unopened", params |-> None, data |-> <<>>, nframes |-> 0]

\* wave.open(output_wav, "wb") and the four setters
OpenWrite(p) == [state |-> "open", params |-> p, data |-> <<>>, nframes |-> 0]

\* Wave_write.writeframes
WriteFrames(o, data) ==
  [o EXCEPT !.data = @ \o data,
            !.nframes = @ + (Len(data) \div (o.params.sampwidth * o.params.n_channels))]

\* leaving the with block, normally or by an exception: Wave_write.close
\* variant: the stream is left open
CloseNever(o) == o
Close(o) == [o EXCEPT !.state = "closed"]

Op(name, idx, data) == [op |-> name, idx |-> idx, data |-> data]

(* ------------------ concat_wavs_with_silence (steps) ------------------ *)
ConcatVarsUnchanged == UNCHANGED <<caller, texts, requests, wav_list, silence_seconds, call, ret>>

\* variant: the output is opened before the list is indexed
ReadFirstAfterOpen ==
  /\ pc = "concat_enter"
  /\ IF wav_list = <<>>
     THEN /\ error' = IndexError
          /\ pc' = "concat_raised"
          /\ out_w' = Close(OpenWrite(None))
          /\ UNCHANGED ref
     ELSE /\ ref' = Params(wav_list[1])
          /\ pc' = "open_out"
          /\ UNCHANGED <<error, out_w>>
  /\ UNCHANGED <<silence_frames, i, ops>>
  /\ ConcatVarsUnchanged
\* first_wav = wav_list[0] and the five getters
ReadFirst ==
  /\ pc = "concat_enter"
  /\ IF wav_list = <<>>
     THEN /\ error' = IndexError
          /\ pc' = "concat_raised"
          /\ UNCHANGED ref
     ELSE /\ ref' = Params(wav_list[1])
          /\ pc' = "open_out"
          /\ UNCHANGED error
  /\ UNCHANGED <<out_w, silence_frames, i, ops>>
  /\ ConcatVarsUnchanged

\* with wave.open(output_wav, "wb") as out_w: and the four setters
OpenOutput ==
  /\ pc = "open_out"
  /\ out_w' = OpenWrite(ref)
  /\ ops' = ops \o <<Op("open", 0, <<>>), Op("setparams", 0, <<>>)>>
  /\ pc' = "make_silence"
  /\ UNCHANGED <<ref, silence_frames, i, error>>
  /\ ConcatVarsUnchanged

\* silence_frames = create_silence_frames(...); an exception leaves the with block
MakeSilence ==
  /\ pc = "make_silence"
  /\ LET r == create_silence_frames(ref.n_channels, ref.sampwidth, ref.framerate,
                                    silence_seconds)
     IN IF r.raised
        THEN /\ error' = r.error
             /\ out_w' = Close(out_w)
             /\ ops' = ops \o <<Op("silence", 0, <<>>), Op("close", 0, <<>>)>>
             /\ pc' = "concat_raised"
             /\ UNCHANGED <<silence_frames, i>>
        ELSE /\ silence_frames' = r.bytes
             /\ ops' = Append(ops, Op("silence", 0, r.bytes))
             /\ i' = 0
             /\ pc' = "loop"
             /\ UNCHANGED <<error, out_w>>
  /\ UNCHANGED ref
  /\ ConcatVarsUnchanged

\* for i, wav_bytes in enumerate(wav_list): the next item, or the end of the with block
LoopNext ==
  /\ pc = "loop"
  /\ IF i < Len(wav_list)
     THEN /\ pc' = "check"
          /\ UNCHANGED <<out_w, ops>>
     ELSE /\ out_w' = Close(out_w)
          /\ ops' = Append(ops, Op("close", 0, <<>>))
          /\ pc' = "concat_returned"
  /\ UNCHANGED <<ref, silence_frames, i, error>>
  /\ ConcatVarsUnchanged

\* the format check on segment i; the ValueError leaves both with blocks
CheckFormat ==
  /\ pc = "check"
  /\ IF FormatDiffers(wav_list[i + 1], ref)
     THEN /\ error' = MismatchError
          /\ out_w' = Close(out_w)
          /\ ops' = ops \o <<Op("check", i, <<>>), Op("close", 0, <<>>)>>
          /\ pc' = "concat_raised"
     ELSE /\ ops' = Append(ops, Op("check", i, <<>>))
          /\ pc' = "write_frames"
          /\ UNCHANGED <<error, out_w>>
  /\ UNCHANGED <<ref, silence_frames, i>>
  /\ ConcatVarsUnchanged

\* frames = w.readframes(w.getnframes()); out_w.writeframes(frames)
WriteSegment ==
  /\ pc = "write_frames"
  /\ LET frames == ReadFrames(wav_list[i + 1])
     IN /\ out_w' = WriteFrames(out_w, frames)
        /\ ops' = Append(ops, Op("write_segment", i, frames))
  /\ pc' = "gap"
  /\ UNCHANGED <<ref, silence_frames, i, error>>
  /\ ConcatVarsUnchanged

\* if i != len(wav_list) - 1: out_w.writeframes(silence_frames)
InsertSilence ==
  /\ pc = "gap"
  /\ IF NotLast(i, Len(wav_list))
     THEN /\ out_w' = WriteFrames(out_w, silence_frames)
          /\ ops' = Append(ops, Op("write_silence", i, silence_frames))
     ELSE UNCHANGED <<out_w, ops>>
  /\ i' = i + 1
  /\ pc' = "loop"
  /\ UNCHANGED <<ref, silence_frames, error>>
  /\ ConcatVarsUnchanged

NextConcat ==
  \/ ReadFirst
  \/ OpenOutput
  \/ MakeSilence
  \/ LoopNext
  \/ CheckFormat
  \/ WriteSegment
  \/ InsertSilence

\* a direct call of concat_wavs_with_silence(wav_list, silence_seconds, output_wav)
InitConcat ==
  /\ pc = "concat_enter"
  /\ caller = "direct"
  /\ texts = <<>>
  /\ requests = <<>>
  /\ wav_list \in SeqUpTo(WavSet, MaxSegs)
  /\ silence_seconds \in Durations
  /\ ref = None
  /\ out_w = Unopened
  /\ silence_frames = None
  /\ i = 0
  /\ error = NoError
  /\ ops = <<>>
  /\ call = None
  /\ ret = None

SpecConcat == InitConcat /\ [][NextConcat]_vars

(* ------------------- create_silence_frames (direct) ------------------- *)
SilenceArgs ==
  [n_channels : 1..MaxArg, sampwidth : WaveWidths, framerate : 1..MaxArg,
   seconds : {Rational(n, SecDen) : n \in (-MaxArg)..MaxArg}]

CallCreateSilence ==
  /\ pc = "silence_call"
  /\ ret' = create_silence_frames(call.n_channels, call.sampwidth, call.framerate,
                                  call.seconds)
  /\ pc' = "silence_done"
  /\ UNCHANGED <<caller, texts, requests, wav_list, silence_seconds, ref, out_w,
                 silence_frames, i, error, ops, call>>

InitSilence ==
  /\ pc = "silence_call"
  /\ caller = "direct"
  /\ texts = <<>>
  /\ requests = <<>>
  /\ wav_list = <<>>
  /\ silence_seconds = None
  /\ ref = None
  /\ out_w = Unopened
  /\ silence_frames = None
  /\ i = 0
  /\ error = NoError
  /\ ops = <<>>
  /\ call \in SilenceArgs
  /\ ret = None

NextSilence == CallCreateSilence

SpecSilence == InitSilence /\ [][NextSilence]_vars

(* ------------------------------- main --------------------------------- *)
MainVarsUnchanged == UNCHANGED <<caller, ref, out_w, silence_frames, i, ops, call, ret>>

Request(endpoint, text) == [endpoint |-> endpoint, text |-> text, speaker |-> SPEAKER_ID]

\* the text the for loop of main is at: one wav has been appended per finished text
CurrentText == texts[Len(wav_list) + 1]

\* texts = load_texts_from_spreadsheet(); if not texts: return
LoadTexts ==
  /\ pc = "main_enter"
  /\ \E t \in SeqUpTo(TextSet, MaxTexts) :
       /\ texts' = t
       /\ pc' = IF t = <<>> THEN "main_returned" ELSE "synth_query"
  /\ UNCHANGED <<requests, wav_list, silence_seconds, error>>
  /\ MainVarsUnchanged

\* the spreadsheet read raises
LoadTextsFails ==
  /\ pc = "main_enter"
  /\ error' = SheetError
  /\ pc' = "main_raised"
  /\ UNCHANGED <<texts, requests, wav_list, silence_seconds>>
  /\ MainVarsUnchanged

\* synthesize_voicevox: POST /audio_query and r.raise_for_status()
AudioQuery ==
  /\ pc = "synth_query"
  /\ requests' = Append(requests, Request("audio_query", CurrentText))
  /\ \E ok \in BOOLEAN :
       IF ok
       THEN pc' = "synth_synthesis" /\ UNCHANGED error
       ELSE pc' = "main_raised" /\ error' = HTTPError
  /\ UNCHANGED <<texts, wav_list, silence_seconds>>
  /\ MainVarsUnchanged

\* the loop of main after a text: the next text, or the call of the assembler
\* variant: the assembler is called after the first text
AfterTextSkip(done, n) == "call_concat"
AfterText(done, n) == IF done = n THEN "call_concat" ELSE "synth_query"

\* synthesize_voicevox: POST /synthesis, r2.raise_for_status(); wav_list.append
Synthesis ==
  /\ pc = "synth_synthesis"
  /\ requests' = Append(requests, Request("synthesis", CurrentText))
  /\ \E ok \in BOOLEAN :
       IF ok
       THEN /\ \E w \in WavSet : wav_list' = Append(wav_list, w)
            /\ pc' = AfterText(Len(wav_list) + 1, Len(texts))
            /\ UNCHANGED error
       ELSE /\ pc' = "main_raised"
            /\ error' = HTTPError
            /\ UNCHANGED wav_list
  /\ UNCHANGED <<texts, silence_seconds>>
  /\ MainVarsUnchanged

\* concat_wavs_with_silence(wav_list, SILENCE_SECONDS, OUTPUT_WAV)
CallConcat ==
  /\ pc = "call_concat"
  /\ silence_seconds' = Rational(SILENCE_SECONDS, 1)
  /\ pc' = "concat_enter"
  /\ UNCHANGED <<texts, requests, wav_list, error>>
  /\ MainVarsUnchanged

\* the assembler returned: main prints the completion message
MainReturn ==
  /\ pc = "concat_returned"
  /\ caller = "main"
  /\ pc' = "main_returned"
  /\ UNCHANGED <<texts, requests, wav_list, silence_seconds, error>>
  /\ MainVarsUnchanged

\* the assembler raised: main does not catch it
MainPropagate ==
  /\ pc = "concat_raised"
  /\ caller = "main"
  /\ pc' = "main_raised"
  /\ UNCHANGED <<texts, requests, wav_list, silence_seconds, error>>
  /\ MainVarsUnchanged

InitMain ==
  /\ pc = "main_enter"
  /\ caller = "main"
  /\ texts = <<>>
  /\ requests = <<>>
  /\ wav_list = <<>>
  /\ silence_seconds = None
  /\ ref = None
  /\ out_w = Unopened
  /\ silence_frames = None
  /\ i = 0
  /\ error = NoError
  /\ ops = <<>>
  /\ call = None
  /\ ret = None

NextMain ==
  \/ LoadTexts
  \/ LoadTextsFails
  \/ AudioQuery
  \/ Synthesis
  \/ CallConcat
  \/ MainReturn
  \/ MainPropagate
  \/ NextConcat

SpecMain == InitMain /\ [][NextMain]_vars

(* ======================= properties of the code ======================= *)
RECURSIVE Concat(_)
Concat(ss) == IF ss = <<>> THEN <<>> ELSE Head(ss) \o Concat(Tail(ss))

RECURSIVE SumLen(_)
SumLen(ss) == IF ss = <<>> THEN 0 ELSE Len(Head(ss)) + SumLen(Tail(ss))

IsPrefix(a, b) == Len(a) <= Len(b) /\ a = SubSeq(b, 1, Len(a))

IsWrite(e) == e.op \in {"write_segment", "write_silence"}
Writes == SelectSeq(ops, IsWrite)
CountOp(name) == Cardinality({j \in 1..Len(ops) : ops[j].op = name})

Finished == pc \in {"concat_returned", "concat_raised"}
Succeeded == pc = "concat_returned"

FrameData(list) == [k \in 1..Len(list) |-> list[k].frames]

\* segment 0, silence, segment 1, silence, ..., segment n-1
Interleaved(list, sil) ==
  [j \in 1..(IF list = <<>> THEN 0 ELSE 2 * Len(list) - 1) |->
     IF j % 2 = 1
     THEN Op("write_segment", (j - 1) \div 2, list[(j + 1) \div 2].frames)
     ELSE Op("write_silence", (j \div 2) - 1, sil)]

GetNFrames(w) == Len(w.frames) \div (w.nchannels * w.sampwidth)
FloorFrames(rate, d) == (rate * d.num) \div d.den
RECURSIVE SumFrames(_)
SumFrames(list) == IF list = <<>> THEN 0 ELSE GetNFrames(Head(list)) + SumFrames(Tail(list))

\* byte offset of segment k (1-based) in the output
SegOffset(k) ==
  SumLen(FrameData(SubSeq(wav_list, 1, k - 1)))
    + (k - 1) * FloorFrames(ref.framerate, silence_seconds) * ref.n_channels * ref.sampwidth

\* C2: after a successful assembly the output holds sum of the segments' frame
\* counts plus (n-1) * floor(r*d) frames, and every segment's data starts right
\* after the data of the segments and silences before it.
C2_TotalFrames ==
  Succeeded =>
    LET n == Len(wav_list)
        total == SumFrames(wav_list) + (n - 1) * FloorFrames(ref.framerate, silence_seconds)
    IN /\ out_w.nframes = total
       /\ Len(out_w.data) = total * ref.n_channels * ref.sampwidth
       /\ \A k \in 1..n :
            SubSeq(out_w.data, SegOffset(k) + 1, SegOffset(k) + Len(wav_list[k].frames))
              = wav_list[k].frames
       /\ \A k \in 1..(n - 1) :
            \A j \in (SegOffset(k) + Len(wav_list[k].frames) + 1)..SegOffset(k + 1) :
              out_w.data[j] = 0

C2_Witness ==
  /\ Succeeded
  /\ Len(wav_list) = 2
  /\ wav_list[1].frames # <<>>
  /\ wav_list[2].frames # <<>>
  /\ FloorFrames(ref.framerate, silence_seconds) > 0
  /\ (ref.framerate * silence_seconds.num) % silence_seconds.den # 0

Differs(k) ==
  \/ wav_list[k].nchannels # wav_list[1].nchannels
  \/ wav_list[k].sampwidth # wav_list[1].sampwidth
  \/ wav_list[k].framerate # wav_list[1].framerate
HasMismatch == \E k \in 2..Len(wav_list) : Differs(k)
FirstMismatch == CHOOSE k \in 2..Len(wav_list) : Differs(k) /\ \A j \in 2..(k - 1) : ~Differs(j)

\* C4: with a mismatching segment at index k >= 1 the run ends Failed with the
\* format-mismatch error, the output stream is never finalized, and no segment
\* from k on is written.
C4_NoFinalizeOnMismatch ==
  (HasMismatch /\ wav_list[1].sampwidth = 2 /\ Finished) =>
    /\ pc = "concat_raised"
    /\ error = MismatchError
    /\ out_w.state # "closed"
    /\ CountOp("close") = 0
    /\ \A j \in 1..Len(ops) : ops[j].op = "write_segment" => ops[j].idx < FirstMismatch - 1

\* C5: an empty list fails before the output is opened: nothing is created,
\* no silence is generated, no frame is written.
C5_EmptyInput ==
  (wav_list = <<>> /\ pc # "concat_enter") =>
    /\ pc = "concat_raised"
    /\ error = IndexError
    /\ out_w = Unopened
    /\ silence_frames = None
    /\ ops = <<>>

C5_Witness == wav_list = <<>> /\ pc = "concat_raised" /\ error # NoError

\* C6: with sample width 2, channel count >= 1, frame rate >= 1 and duration >= 0
\* the generator returns channel_count * floor(frame_rate * duration) * 2 bytes,
\* all zero; the frame count is truncated and duration 0 gives an empty buffer.
C6_SilenceSize ==
  (pc = "silence_done" /\ call.sampwidth = 2 /\ call.seconds.num >= 0) =>
    /\ ~ret.raised
    /\ Len(ret.bytes) = call.n_channels * FloorFrames(call.framerate, call.seconds) * 2
    /\ \A j \in 1..Len(ret.bytes) : ret.bytes[j] = 0
    /\ call.seconds.num = 0 => ret.bytes = <<>>

C6_Witness ==
  /\ pc = "silence_done"
  /\ call.sampwidth = 2
  /\ call.n_channels = 2
  /\ (call.framerate * call.seconds.num) % call.seconds.den # 0
  /\ FloorFrames(call.framerate, call.seconds) > 0
  /\ ~ret.raised
  /\ ret.bytes # <<>>

\* C7: with a sample width other than 2 the generator always fails with the
\* unsupported-format error and returns no buffer, whatever the other inputs.
C7_UnsupportedWidth ==
  (pc = "silence_done" /\ call.sampwidth # 2) =>
    /\ ret.raised
    /\ ret.error = UnsupportedError
    /\ ret.bytes = <<>>

C7_Witness ==
  /\ pc = "silence_done"
  /\ call.sampwidth # 2
  /\ call.seconds.num = 0
  /\ ret.raised

\* the compared fields in which segment k (1-based) differs from the first segment
DifferingFields(k) ==
  {f \in {"nchannels", "sampwidth", "framerate"} : wav_list[k][f] # wav_list[1][f]}

\* C8: the format check of a segment succeeds iff its channel count, sample
\* width and frame rate equal the first segment's, and when exactly one of the
\* three differs the mismatch error identifies that field.
C8_CheckNamesField ==
  /\ pc = "write_frames" => DifferingFields(i + 1) = {}
  /\ (pc = "concat_raised" /\ error = MismatchError) =>
       /\ DifferingFields(i + 1) # {}
       /\ Cardinality(DifferingFields(i + 1)) = 1 => error.fields = DifferingFields(i + 1)

\* the requests of a run that synthesizes every text of ts, in order
AllRequests(ts) ==
  [j \in 1..(2 * Len(ts)) |->
     IF j % 2 = 1 THEN Request("audio_query", ts[(j + 1) \div 2])
                  ELSE Request("synthesis", ts[j \div 2])]

InAssembler ==
  pc \in {"call_concat", "concat_enter", "open_out", "make_silence", "loop", "check",
          "write_frames", "gap", "concat_returned", "concat_raised"}

\* C9: texts are synthesized one at a time in input order and the assembler is
\* invoked only after all of them succeeded; a failed synthesis call aborts the
\* run: nothing after it is requested, nothing is skipped, the assembler is never
\* invoked and no output is created.
C9_SynthesisOrder ==
  /\ IsPrefix(requests, AllRequests(texts))
  /\ Len(wav_list) <= Len(texts)
  /\ Len(requests) \in {2 * Len(wav_list), 2 * Len(wav_list) + 1, 2 * Len(wav_list) + 2}
  /\ (InAssembler \/ out_w # Unopened \/ ops # <<>> \/ silence_seconds # None) =>
       /\ Len(wav_list) = Len(texts)
       /\ requests = AllRequests(texts)
       /\ error # HTTPError
  /\ error = HTTPError =>
       /\ pc = "main_raised"
       /\ out_w = Unopened
       /\ ops = <<>>
       /\ silence_seconds = None
       /\ Len(requests) \in {2 * Len(wav_list) + 1, 2 * Len(wav_list) + 2}

C9_Witness ==
  /\ error = HTTPError
  /\ pc = "main_raised"
  /\ Len(texts) = 2
  /\ Len(wav_list) = 0
  /\ Len(requests) = 2

====
